---- MODULE Spec2Model ----
(***************************************************************************)
(* CodingTestMonitor (src/streamlit_app.py, src/pcc_streamlit_app.py):     *)
(* the current dataset, the round store, and the operations that load,     *)
(* filter and summarise them.                                              *)
(*                                                                         *)
(* Column names are written in ASCII here:                                 *)
(*   "No" = 'No.', "subject", "email", "pass" = pass/fail, "score" = total *)
(*   score, "level" = 'grade(Lv.)', "dept", "year", "sid" = student number *)
(* and the pass label of the source is the string "PASS".                  *)
(* A float score is modelled by an integer (the scores used are whole).    *)
(***************************************************************************)
EXTENDS Integers, Sequences, FiniteSets, TLC

VARIABLES
    data,             \* self.data: the current dataset
    all_rounds_data,  \* self.all_rounds_data: dict round -> dataset, in insertion order
    op,               \* the operation that ran last
    filters,          \* the filter map the last filter call was given
    input,            \* the dataset the last read operation ran on
    ret,              \* the dataset the last filter call returned
    prev,             \* dataset and filter map of the filter call before the last one
    stats,            \* the dict the last statistics call returned
    ok,               \* the boolean the last load call returned
    err,              \* TRUE when the last operation reported through st.error
    shared,           \* TRUE when the returned dataset is the object self.data itself
    loaded,           \* the round sources the last load_all_rounds_data call read
    unread,           \* the rounds whose files that call never opened
    file_ext,         \* the extension of the file the last load_data call was given
    load_exc          \* the exception its except branch caught, "" when none

vars == <<data, all_rounds_data, op, filters, input, ret, prev, stats, ok, err,
          shared, loaded, unread, file_ext, load_exc>>

----------------------------------------------------------------------------
(* Cell values.  Python values of different types never compare equal, and *)
(* a NaN equals nothing, itself included.                                  *)

I(n) == [t |-> "int", n |-> n, s |-> "", items |-> <<>>]
S(s) == [t |-> "str", n |-> 0, s |-> s, items |-> <<>>]
L(items) == [t |-> "list", n |-> 0, s |-> "", items |-> items]
NaN == [t |-> "nan", n |-> 0, s |-> "", items |-> <<>>]
Absent == [t |-> "absent", n |-> 0, s |-> "", items |-> <<>>]

PyEq(a, b) ==
    /\ a.t = b.t
    /\ a.t \in {"int", "str"}
    /\ a.n = b.n
    /\ a.s = b.s

\* Truthy with an empty list taken for a value to filter by
TruthyListBug(v) ==
    CASE v.t = "int" -> v.n # 0
      [] v.t = "str" -> v.s # ""
      [] OTHER -> TRUE

\* bool(value): the test of `if value:`
Truthy(v) ==
    CASE v.t = "int" -> v.n # 0
      [] v.t = "str" -> v.s # ""
      [] v.t = "list" -> Len(v.items) > 0
      [] OTHER -> TRUE

Digit == <<"0", "1", "2", "3", "4", "5", "6", "7", "8", "9">>

RECURSIVE IntToStr(_)
IntToStr(n) ==
    IF n < 10 THEN Digit[n + 1] ELSE IntToStr(n \div 10) \o Digit[(n % 10) + 1]

\* str(value), Series.astype(str) on one cell
PyStr(v) ==
    CASE v.t = "int" -> S(IntToStr(v.n))
      [] v.t = "nan" -> S("nan")
      [] OTHER -> v

MaxNumeral == 100

NumeralTable == [n \in 0..MaxNumeral |-> IntToStr(n)]

\* pd.to_numeric(errors='coerce') on one cell
ToNumeric(v) ==
    CASE v.t = "int" -> v
      [] v.t = "str" ->
            IF \E n \in 0..MaxNumeral : NumeralTable[n] = v.s
            THEN I(CHOOSE n \in 0..MaxNumeral : NumeralTable[n] = v.s)
            ELSE NaN
      [] OTHER -> NaN

\* one key of DataFrame.fillna: a NaN cell takes the fill value
FillNa(v, fill) == IF v.t = "nan" THEN fill ELSE v

----------------------------------------------------------------------------
(* Datasets: a set of column names and a sequence of rows, each row a       *)
(* function from the column names to cells.                                *)

columns == {"No", "subject", "email", "pass", "score", "level", "dept", "year", "sid"}

Frame(cols, rows) == [cols |-> cols, rows |-> rows]

EmptyFrame == Frame(columns, <<>>)

string_columns == {"subject", "email", "pass", "level", "dept", "sid"}

\* the type conversions and the fillna of load_data, on one row
ProcessRow(cols, row) ==
    [c \in cols |->
        CASE c = "No" -> FillNa(ToNumeric(row[c]), I(1))
          [] c = "score" -> FillNa(ToNumeric(row[c]), I(0))
          [] c = "year" -> FillNa(PyStr(row[c]), S("1"))
          [] c \in string_columns -> PyStr(row[c])
          [] OTHER -> row[c]]

process_data_types(df) ==
    Frame(df.cols, [i \in 1..Len(df.rows) |-> ProcessRow(df.cols, df.rows[i])])

\* file.name.endswith(...) selects the reader; any other name leaves df unbound
KnownExtension(name) == name \in {"csv", "xlsx", "xls"}

\* a load that would clear the current dataset when it fails
load_data_clearing(old, file) ==
    IF KnownExtension(file.ext) /\ file.readable
    THEN [data |-> process_data_types(file.df), ok |-> TRUE, err |-> FALSE, exc |-> ""]
    ELSE [data |-> Frame(columns, <<>>), ok |-> FALSE, err |-> TRUE,
          exc |-> IF KnownExtension(file.ext) THEN "ParserError"
                  ELSE "UnboundLocalError"]

\* load_data(file): [data, ok, err] after the call, and the exception the
\* except branch caught: the reader's own, or UnboundLocalError for the
\* first use of df when no reader was selected
load_data(old, file) ==
    IF KnownExtension(file.ext) /\ file.readable
    THEN [data |-> process_data_types(file.df), ok |-> TRUE, err |-> FALSE, exc |-> ""]
    ELSE [data |-> old, ok |-> FALSE, err |-> TRUE,
          exc |-> IF KnownExtension(file.ext) THEN "ParserError"
                  ELSE "UnboundLocalError"]

----------------------------------------------------------------------------
(* filter_data                                                             *)

InList(v, items) == \E i \in 1..Len(items) : PyEq(v, items[i])

apply_filter(df, key, value) ==
    IF value.t = "list"
    THEN Frame(df.cols, SelectSeq(df.rows, LAMBDA row : InList(row[key], value.items)))
    ELSE IF key = "year"
    THEN Frame(df.cols,
               SelectSeq(df.rows, LAMBDA row : PyEq(PyStr(row[key]), PyStr(value))))
    ELSE Frame(df.cols, SelectSeq(df.rows, LAMBDA row : PyEq(row[key], value)))

\* the keys of a filter map, in the order the loop visits them: the columns
\* of the dict main() builds, then a key that is no column, so that the
\* constraints on existing columns are applied before it is reached
KeyOrder == <<"dept", "year", "score", "bogus">>

\* FilterLoop with the return inside the loop body: it ends after the first
\* constraint it applies
RECURSIVE FilterLoopEarlyReturn(_, _, _)
FilterLoopEarlyReturn(filtered_data, fmap, i) ==
    IF i > Len(KeyOrder)
    THEN [df |-> filtered_data, raised |-> FALSE]
    ELSE LET key == KeyOrder[i]
             value == fmap[key]
         IN  IF value.t = "absent" \/ ~Truthy(value)
             THEN FilterLoopEarlyReturn(filtered_data, fmap, i + 1)
             ELSE IF key \notin filtered_data.cols
             THEN [df |-> filtered_data, raised |-> TRUE]
             ELSE [df |-> apply_filter(filtered_data, key, value), raised |-> FALSE]

RECURSIVE FilterLoop(_, _, _)
FilterLoop(filtered_data, fmap, i) ==
    IF i > Len(KeyOrder)
    THEN [df |-> filtered_data, raised |-> FALSE]
    ELSE LET key == KeyOrder[i]
             value == fmap[key]
         IN  IF value.t = "absent" \/ ~Truthy(value)
             THEN FilterLoop(filtered_data, fmap, i + 1)
             ELSE IF key \notin filtered_data.cols
             THEN [df |-> filtered_data, raised |-> TRUE]
             ELSE FilterLoop(apply_filter(filtered_data, key, value), fmap, i + 1)

\* filter_data(filters) on a monitor whose self.data is df: the returned
\* dataset, whether st.error was called, and whether the returned object is
\* self.data itself (the except branch) rather than a copy
filter_data(df, fmap) ==
    LET r == FilterLoop(df, fmap, 1)
    IN  IF r.raised
        THEN [ret |-> df, err |-> TRUE, shared |-> TRUE]
        ELSE [ret |-> r.df, err |-> FALSE, shared |-> FALSE]

----------------------------------------------------------------------------
(* Statistics.  A float result is a fraction num/den, or NaN.               *)

Frac(num, den) == [nan |-> FALSE, num |-> num, den |-> den]
NaNF == [nan |-> TRUE, num |-> 0, den |-> 1]

RECURSIVE SumSeq(_)
SumSeq(xs) == IF xs = <<>> THEN 0 ELSE Head(xs) + SumSeq(Tail(xs))

\* Series.mean(): NaN for an empty series
Mean(xs) == IF xs = <<>> THEN NaNF ELSE Frac(SumSeq(xs), Len(xs))

\* the numbers of a column, NaN cells skipped (skipna)
Numbers(df, col) ==
    LET cells == [i \in 1..Len(df.rows) |-> df.rows[i][col]]
        nums == SelectSeq(cells, LAMBDA v : v.t = "int")
    IN  [i \in 1..Len(nums) |-> nums[i].n]

\* a numeric reduction raises on a column that holds text
NumericColumn(df, col) ==
    col \in df.cols /\ \A i \in 1..Len(df.rows) : df.rows[i][col].t \in {"int", "nan"}

\* Series.value_counts().to_dict(): value -> number of rows, NaN dropped
value_counts(df, col) ==
    LET vals == { df.rows[i][col] : i \in 1..Len(df.rows) } \ {NaN}
    IN  [v \in vals |-> Cardinality({ i \in 1..Len(df.rows) : df.rows[i][col] = v })]

EmptyDict == [v \in {} |-> 0]

\* get_statistics(data)
get_statistics(df) ==
    IF /\ {"pass", "dept", "year", "level"} \subseteq df.cols
       /\ NumericColumn(df, "score")
    THEN [kind |-> "basic", raised |-> FALSE,
          count |-> Len(df.rows),
          pass_rate |->
              LET hits == SelectSeq(df.rows, LAMBDA row : PyEq(row["pass"], S("PASS")))
              IN  IF df.rows = <<>> THEN NaNF ELSE Frac(100 * Len(hits), Len(df.rows)),
          mean |-> Mean(Numbers(df, "score")),
          by_dept |-> value_counts(df, "dept"),
          by_year |-> value_counts(df, "year"),
          by_level |-> value_counts(df, "level")]
    ELSE [kind |-> "basic", raised |-> TRUE,
          count |-> 0, pass_rate |-> Frac(0, 1), mean |-> Frac(0, 1),
          by_dept |-> EmptyDict, by_year |-> EmptyDict, by_level |-> EmptyDict]

Max(xs) == CHOOSE x \in { xs[i] : i \in 1..Len(xs) } : \A j \in 1..Len(xs) : xs[j] <= x
Min(xs) == CHOOSE x \in { xs[i] : i \in 1..Len(xs) } : \A j \in 1..Len(xs) : x <= xs[j]

Remove(xs, x) ==
    LET i == CHOOSE j \in 1..Len(xs) : xs[j] = x
    IN  SubSeq(xs, 1, i - 1) \o SubSeq(xs, i + 1, Len(xs))

\* Series.nlargest(k), Series.nsmallest(k)
RECURSIVE nlargest(_, _)
nlargest(xs, k) ==
    IF k <= 0 \/ xs = <<>> THEN <<>>
    ELSE <<Max(xs)>> \o nlargest(Remove(xs, Max(xs)), k - 1)

RECURSIVE nsmallest(_, _)
nsmallest(xs, k) ==
    IF k <= 0 \/ xs = <<>> THEN <<>>
    ELSE <<Min(xs)>> \o nsmallest(Remove(xs, Min(xs)), k - 1)

\* Series.median()
Median(xs) ==
    LET n == Len(xs)
        asc == nsmallest(xs, n)
    IN  IF n = 0 THEN NaNF
        ELSE IF n % 2 = 1 THEN Frac(asc[(n + 1) \div 2], 1)
        ELSE Frac(asc[n \div 2] + asc[(n \div 2) + 1], 2)

\* the square of Series.std() (ddof = 1): NaN below two values
StdSquared(xs) ==
    LET n == Len(xs)
        sq == [i \in 1..n |-> xs[i] * xs[i]]
    IN  IF n < 2 THEN NaNF
        ELSE Frac(n * SumSeq(sq) - SumSeq(xs) * SumSeq(xs), n * (n - 1))

\* int(len(data) * 0.1)
DecileCount(n) == n \div 10

\* calculate_advanced_statistics(data); the key std holds the square of the
\* standard deviation
calculate_advanced_statistics(df) ==
    IF NumericColumn(df, "score")
    THEN LET xs == Numbers(df, "score")
             k == DecileCount(Len(df.rows))
         IN  [kind |-> "advanced", raised |-> FALSE,
              std |-> StdSquared(xs),
              median |-> Median(xs),
              max |-> IF xs = <<>> THEN NaNF ELSE Frac(Max(xs), 1),
              min |-> IF xs = <<>> THEN NaNF ELSE Frac(Min(xs), 1),
              top10 |-> Mean(nlargest(xs, k)),
              bottom10 |-> Mean(nsmallest(xs, k))]
    ELSE [kind |-> "advanced", raised |-> TRUE]

\* the mean of a boolean series: the share of the rows that satisfy the
\* test, NaN for no rows
Share(hits, n) == IF n = 0 THEN NaNF ELSE Frac(hits, n)

\* create_performance_radar(data, department): the metrics of the figure
\* and its title; the participation is len(dept_data) / len(data), which
\* raises ZeroDivisionError for a dataset of no rows
create_performance_radar(df, department) ==
    IF \/ Truthy(department) /\ "dept" \notin df.cols
       \/ ~({"score", "pass", "level"} \subseteq df.cols)
       \/ df.rows = <<>>
    THEN [kind |-> "radar", raised |-> TRUE]
    ELSE LET dept_data ==
                 IF Truthy(department)
                 THEN SelectSeq(df.rows, LAMBDA row : PyEq(row["dept"], department))
                 ELSE df.rows
             n == Len(dept_data)
             mean == Mean(Numbers(Frame(df.cols, dept_data), "score"))
         IN  IF ~NumericColumn(Frame(df.cols, dept_data), "score")
             THEN [kind |-> "radar", raised |-> TRUE]
             ELSE
             [kind |-> "radar", raised |-> FALSE,
              title |-> IF Truthy(department) THEN department ELSE S("all"),
              mean_score |-> IF mean.nan THEN NaNF ELSE Frac(mean.num, 100 * mean.den),
              pass_rate |->
                  Share(Len(SelectSeq(dept_data,
                            LAMBDA row : PyEq(row["pass"], S("PASS")))), n),
              top_levels |->
                  Share(Len(SelectSeq(dept_data,
                            LAMBDA row : PyEq(row["level"], S("A"))
                                         \/ PyEq(row["level"], S("B")))), n),
              participation |-> Frac(n, Len(df.rows)),
              improvement |-> Frac(1, 2)]

----------------------------------------------------------------------------
(* The round store.                                                        *)

\* the names of the round files, character by character ("r" for the
\* counter word that follows the digit)
RoundFileName(d) == <<"P", "C", "C", "_", d, "r", ".", "c", "s", "v">>

RoundFiles == <<RoundFileName("1"), RoundFileName("2"), RoundFileName("3"),
                RoundFileName("4")>>

\* str.split(sep)
RECURSIVE Split(_, _)
Split(str, sep) ==
    IF \E i \in 1..Len(str) : str[i] = sep
    THEN LET i == CHOOSE j \in 1..Len(str) :
                     str[j] = sep /\ \A h \in 1..(j - 1) : str[h] # sep
         IN  <<SubSeq(str, 1, i - 1)>> \o Split(SubSeq(str, i + 1, Len(str)), sep)
    ELSE <<str>>

\* int(c) for one digit character
DigitValue(c) == (CHOOSE i \in 1..Len(Digit) : Digit[i] = c) - 1

\* int(round_file.split('_')[1][0])
RoundNum(round_file) == DigitValue(Split(round_file, "_")[2][1])

\* the round number of each file of the list
RoundNums == [i \in 1..Len(RoundFiles) |-> RoundNum(RoundFiles[i])]

Keys(store) == { store[i].round : i \in 1..Len(store) }

Lookup(store, r) == store[CHOOSE i \in 1..Len(store) : store[i].round = r].df

\* an assignment that would take an existing key out and put it last
DictSetMovesLast(store, r, df) ==
    Append(SelectSeq(store, LAMBDA e : e.round # r), [round |-> r, df |-> df])

\* dict[k] = v: an existing key keeps its place, a new key goes last
DictSet(store, r, df) ==
    IF r \in Keys(store)
    THEN [i \in 1..Len(store) |->
             IF store[i].round = r THEN [round |-> r, df |-> df] ELSE store[i]]
    ELSE Append(store, [round |-> r, df |-> df])

\* the loop of load_all_rounds_data from file i on: a file that cannot be
\* opened or parsed raises, and the loop ends there
RECURSIVE LoadLoop(_, _, _)
LoadLoop(store, srcs, i) ==
    IF i > Len(RoundFiles)
    THEN [store |-> store, ok |-> TRUE, err |-> FALSE, unread |-> {}]
    ELSE IF i > Len(srcs)
    THEN [store |-> store, ok |-> FALSE, err |-> TRUE,
          unread |-> { RoundNums[j] : j \in (i + 1)..Len(RoundFiles) }]
    ELSE LoadLoop(DictSet(store, RoundNums[i], srcs[i]), srcs, i + 1)

\* load_all_rounds_data with the store emptied first
load_all_rounds_data_reset(store, srcs) == LoadLoop(<<>>, srcs, 1)

\* load_all_rounds_data(): srcs holds the contents of the files read before
\* the first file that fails (all of them when none fails)
load_all_rounds_data(store, srcs) == LoadLoop(store, srcs, 1)

----------------------------------------------------------------------------
(* Inputs: the rows a source file may hold and the filter maps a caller    *)
(* may pass.                                                               *)

MkRow(no, email, pass, score, level, dept, year, sid) ==
    [c \in columns |->
        CASE c = "No" -> no
          [] c = "subject" -> S("PCC")
          [] c = "email" -> email
          [] c = "pass" -> pass
          [] c = "score" -> score
          [] c = "level" -> level
          [] c = "dept" -> dept
          [] c = "year" -> year
          [] c = "sid" -> sid]

\* cells as read_csv delivers them: numbers, text, and NaN for an empty cell
RawRows ==
    { MkRow(I(1), S("a@x"), S("PASS"), I(80), S("A"), S("CS"), I(2), I(1001)),
      MkRow(NaN, S("b@x"), S("FAIL"), NaN, NaN, S("EE"), S("3"), S("1002")),
      MkRow(S("4"), S("c@x"), S("PASS"), S("abc"), S("B"), S("CS"), NaN, I(1003)) }

MaxRows == 2

SeqsUpTo(set, n) == UNION { [1..k -> set] : k \in 0..n }

RawFrames == { Frame(columns, rows) : rows \in SeqsUpTo(RawRows, MaxRows) }

OneRawFrame == CHOOSE df \in RawFrames : Len(df.rows) = 1

\* a table without one of its columns
DropColumn(df, col) ==
    Frame(df.cols \ {col},
          [i \in 1..Len(df.rows) |-> [c \in df.cols \ {col} |-> df.rows[i][c]]])

\* a source whose header has no level column
NoLevelFrame == DropColumn(OneRawFrame, "level")

\* readable csv files of every content, and one each of: a readable xlsx
\* file, a file of another extension, a csv file that cannot be parsed, a
\* csv file without the level column
Files ==
    [ext : {"csv"}, readable : {TRUE}, df : RawFrames]
        \cup [ext : {"xlsx", "txt"}, readable : {TRUE}, df : {OneRawFrame}]
        \cup [ext : {"csv"}, readable : {FALSE}, df : {OneRawFrame}]
        \cup [ext : {"csv"}, readable : {TRUE}, df : {NoLevelFrame}]

FilterKeys == { KeyOrder[i] : i \in 1..Len(KeyOrder) }

FilterValues(key) ==
    CASE key = "dept" -> {Absent, L(<<>>), L(<<S("CS")>>)}
      [] key = "year" -> {Absent, S(""), I(2)}
      [] key = "score" -> {Absent, I(0), I(80)}
      [] key = "bogus" -> {Absent, S(""), I(0), S("x")}

FilterMaps ==
    { [k \in FilterKeys |->
          CASE k = "dept" -> d [] k = "year" -> y [] k = "score" -> sc [] k = "bogus" -> b] :
        d \in FilterValues("dept"), y \in FilterValues("year"),
        sc \in FilterValues("score"), b \in FilterValues("bogus") }

NoFilters == [k \in FilterKeys |-> Absent]

NoPrev == [input |-> EmptyFrame, filters |-> NoFilters]

NoStats == [kind |-> "none"]

----------------------------------------------------------------------------
(* Reads of the round store.                                               *)

\* data[data[col] == value]: the rows whose cell in col equals value
RowsEqual(df, col, value) == SelectSeq(df.rows, LAMBDA row : PyEq(row[col], value))

\* pd.DataFrame(list of dicts), pd.DataFrame(): no columns when the list is empty
NoColumnsFrame == Frame({}, <<>>)

DataFrameOf(cols, rows) == IF rows = <<>> THEN NoColumnsFrame ELSE Frame(cols, rows)

progress_columns == {"round", "score", "pass", "level"}

\* ProgressLoop with a break after the first round that has the email
RECURSIVE ProgressLoopBreak(_, _, _, _)
ProgressLoopBreak(store, email, i, progress_data) ==
    IF i > Len(store) \/ progress_data # <<>>
    THEN [rows |-> progress_data, raised |-> FALSE]
    ELSE LET df == store[i].df
         IN  IF "email" \notin df.cols
             THEN [rows |-> progress_data, raised |-> TRUE]
             ELSE LET student_data == RowsEqual(df, "email", email)
                  IN  IF student_data = <<>>
                      THEN ProgressLoopBreak(store, email, i + 1, progress_data)
                      ELSE IF ~({"score", "pass", "level"} \subseteq df.cols)
                      THEN [rows |-> progress_data, raised |-> TRUE]
                      ELSE ProgressLoopBreak(store, email, i + 1,
                               Append(progress_data,
                                   [c \in progress_columns |->
                                       IF c = "round" THEN I(store[i].round)
                                       ELSE student_data[1][c]]))

\* the loop of get_student_progress from store entry i on, in the order of
\* the dict; a column that is missing raises KeyError
RECURSIVE ProgressLoop(_, _, _, _)
ProgressLoop(store, email, i, progress_data) ==
    IF i > Len(store)
    THEN [rows |-> progress_data, raised |-> FALSE]
    ELSE LET df == store[i].df
         IN  IF "email" \notin df.cols
             THEN [rows |-> progress_data, raised |-> TRUE]
             ELSE LET student_data == RowsEqual(df, "email", email)
                  IN  IF student_data = <<>>
                      THEN ProgressLoop(store, email, i + 1, progress_data)
                      ELSE IF ~({"score", "pass", "level"} \subseteq df.cols)
                      THEN [rows |-> progress_data, raised |-> TRUE]
                      ELSE ProgressLoop(store, email, i + 1,
                               Append(progress_data,
                                   [c \in progress_columns |->
                                       IF c = "round" THEN I(store[i].round)
                                       ELSE student_data[1][c]]))

\* get_student_progress(email): the returned table, and whether st.error
\* was called
get_student_progress(store, email) ==
    LET r == ProgressLoop(store, email, 1, <<>>)
    IN  IF r.raised
        THEN [ret |-> NoColumnsFrame, err |-> TRUE]
        ELSE [ret |-> DataFrameOf(progress_columns, r.rows), err |-> FALSE]

Column(df, col) == [i \in 1..Len(df.rows) |-> df.rows[i][col]]

RECURSIVE Dedup(_, _)
Dedup(xs, seen) ==
    IF xs = <<>> THEN <<>>
    ELSE IF Head(xs) \in seen THEN Dedup(Tail(xs), seen)
    ELSE <<Head(xs)>> \o Dedup(Tail(xs), seen \cup {Head(xs)})

\* the column as it stands, repeated values kept
unique_keeping_repeats(df, col) == Column(df, col)

\* Series.unique(): the values of the column in the order of their first
\* appearance
unique(df, col) == Dedup(Column(df, col), {})

\* student_counts[email] = student_counts.get(email, 0) + 1, the dict as a
\* sequence of entries in insertion order
CountUp(counts, email) ==
    IF \E k \in 1..Len(counts) : counts[k].email = email
    THEN [k \in 1..Len(counts) |->
             IF counts[k].email = email
             THEN [email |-> email, count |-> counts[k].count + 1]
             ELSE counts[k]]
    ELSE Append(counts, [email |-> email, count |-> 1])

RECURSIVE CountEmails(_, _)
CountEmails(counts, emails) ==
    IF emails = <<>> THEN counts
    ELSE CountEmails(CountUp(counts, Head(emails)), Tail(emails))

RECURSIVE CountLoop(_, _, _)
CountLoop(store, i, counts) ==
    IF i > Len(store) THEN counts
    ELSE CountLoop(store, i + 1, CountEmails(counts, unique(store[i].df, "email")))

\* the dict student_counts after the first loop of get_multiple_test_students
student_counts(store) == CountLoop(store, 1, <<>>)

\* the entries with count >= 2
students_of_two_rounds(counts) == SelectSeq(counts, LAMBDA e : e.count >= 2)

\* the entries with count >= 3
multiple_test_students(counts) == SelectSeq(counts, LAMBDA e : e.count >= 3)

HasEmail(store, i, email) == RowsEqual(store[i].df, "email", email) # <<>>

\* the first store entry that has a record of the email
FirstRoundWith(store, email) ==
    CHOOSE i \in 1..Len(store) :
        HasEmail(store, i, email) /\ \A j \in 1..(i - 1) : ~HasEmail(store, j, email)

\* the first hit of the scan over reversed(self.all_rounds_data.values()):
\* the last store entry that has a record of the email
LastRoundWith(store, email) ==
    CHOOSE i \in 1..Len(store) :
        HasEmail(store, i, email) /\ \A j \in (i + 1)..Len(store) : ~HasEmail(store, j, email)

info_columns == {"email", "dept", "sid", "count"}

\* the list student_info: one dict for each listed email that the scan finds
student_info(store, listed) ==
    LET found == SelectSeq(listed,
                     LAMBDA e : \E i \in 1..Len(store) : HasEmail(store, i, e.email))
    IN  [k \in 1..Len(found) |->
            LET student_data ==
                    RowsEqual(store[LastRoundWith(store, found[k].email)].df,
                              "email", found[k].email)
            IN  [c \in info_columns |->
                    CASE c = "email" -> found[k].email
                      [] c = "dept" -> student_data[1]["dept"]
                      [] c = "sid" -> student_data[1]["sid"]
                      [] c = "count" -> I(found[k].count)]]

\* get_multiple_test_students(): the returned table, whether st.error was
\* called, and the dict student_counts
get_multiple_test_students(store) ==
    IF \E i \in 1..Len(store) : "email" \notin store[i].df.cols
    THEN [ret |-> NoColumnsFrame, err |-> TRUE, counts |-> <<>>]
    ELSE LET counts == student_counts(store)
             listed == multiple_test_students(counts)
         IN  IF \E k \in 1..Len(listed) : \E i \in 1..Len(store) :
                    /\ HasEmail(store, i, listed[k].email)
                    /\ i = LastRoundWith(store, listed[k].email)
                    /\ ~({"dept", "sid"} \subseteq store[i].df.cols)
             THEN [ret |-> NoColumnsFrame, err |-> TRUE, counts |-> counts]
             ELSE [ret |-> DataFrameOf(info_columns, student_info(store, listed)),
                   err |-> FALSE, counts |-> counts]

\* numpy's round(1) of a float: to the nearest tenth, a tie to the even one
Round1(f) ==
    IF f.nan THEN NaNF
    ELSE LET q == (10 * f.num) \div f.den
             rem == (10 * f.num) % f.den
         IN  IF 2 * rem > f.den THEN Frac(q + 1, 10)
             ELSE IF 2 * rem < f.den THEN Frac(q, 10)
             ELSE IF q % 2 = 0 THEN Frac(q, 10)
             ELSE Frac(q + 1, 10)

\* create_student_progress_plots(email): the summary table (NoStats for
\* None), and whether st.error was called
create_student_progress_plots(store, email) ==
    LET p == get_student_progress(store, email)
        progress_df == p.ret
    IN  IF progress_df.rows = <<>>
        THEN [summary |-> NoStats, err |-> p.err]
        ELSE IF ~NumericColumn(progress_df, "score")
        THEN [summary |-> NoStats, err |-> TRUE]
        ELSE LET xs == Numbers(progress_df, "score")
             IN  [summary |->
                      [kind |-> "summary",
                       count |-> Len(progress_df.rows),
                       mean |-> Round1(Mean(xs)),
                       max |-> IF xs = <<>> THEN NaNF ELSE Round1(Frac(Max(xs), 1)),
                       min |-> IF xs = <<>> THEN NaNF ELSE Round1(Frac(Min(xs), 1)),
                       passes |-> Len(RowsEqual(progress_df, "pass", S("PASS")))],
                  err |-> FALSE]

\* the department create_performance_heatmap reports on
TargetDept == S("CS")

\* the loop that builds all_data: the target department's rows of each
\* round that has any, with the round number
DeptRounds(store) ==
    LET kept == SelectSeq(store, LAMBDA e : RowsEqual(e.df, "dept", TargetDept) # <<>>)
    IN  [k \in 1..Len(kept) |->
            [round |-> kept[k].round, rows |-> RowsEqual(kept[k].df, "dept", TargetDept)]]

\* groupby sorts its groups by key
SortByRound(groups) ==
    [k \in 1..Len(groups) |->
        groups[CHOOSE i \in 1..Len(groups) :
                   Cardinality({ j \in 1..Len(groups) : groups[j].round < groups[i].round })
                       = k - 1]]

\* the number of rows that carry the label: the size of the group
\* (round, label), 0 when there is no such group
LabelCount(rows, label) ==
    Len(SelectSeq(rows, LAMBDA row : "pass" \in DOMAIN row /\ PyEq(row["pass"], label)))

\* create_performance_heatmap(): per reported round the line of the totals,
\* the bar of the passed, the bar of the failed and the pass rate; whether
\* st.error was called.  pd.concat fills a column that a round lacks with
\* NaN, and groupby raises KeyError when no round has the column
create_performance_heatmap(store) ==
    IF \E i \in 1..Len(store) : "dept" \notin store[i].df.cols
    THEN [rounds |-> <<>>, err |-> TRUE]
    ELSE LET all_data == SortByRound(DeptRounds(store))
         IN  IF /\ all_data # <<>>
                /\ \A k \in 1..Len(all_data) : "pass" \notin DOMAIN all_data[k].rows[1]
             THEN [rounds |-> <<>>, err |-> TRUE]
             ELSE [rounds |->
                      [k \in 1..Len(all_data) |->
                          LET total == Len(all_data[k].rows)
                              passed == LabelCount(all_data[k].rows, S("PASS"))
                          IN  [round |-> all_data[k].round,
                               total |-> total,
                               pass |-> passed,
                               fail |-> LabelCount(all_data[k].rows, S("FAIL")),
                               pass_rate |-> IF total > 0 THEN Frac(100 * passed, total)
                                             ELSE Frac(0, 1)]],
                   err |-> FALSE]

\* what a method returns when it ends without a return statement
PyNone == [kind |-> "None"]

\* go.Figure()
EmptyFigure == [kind |-> "figure"]

\* the loop that builds all_data in create_score_box_plot: the target
\* department's rows of every round, one after the other
RECURSIVE ConcatDept(_, _)
ConcatDept(store, i) ==
    IF i > Len(store) THEN <<>>
    ELSE RowsEqual(store[i].df, "dept", TargetDept) \o ConcatDept(store, i + 1)

\* pd.to_numeric(errors='coerce') on the year column, then dropna
WithNumericYear(rows) ==
    SelectSeq([k \in 1..Len(rows) |-> [rows[k] EXCEPT !["year"] = ToNumeric(rows[k]["year"])]],
              LAMBDA row : row["year"].t = "int")

\* sorted(all_data[year].unique())
SortedYears(rows) ==
    LET years == { rows[k]["year"].n : k \in 1..Len(rows) }
    IN  [k \in 1..Cardinality(years) |->
            CHOOSE y \in years : Cardinality({ z \in years : z < y }) = k - 1]

\* the row of one year in the table of the statistics per year
GradeStats(rows, grade) ==
    LET grade_data == SelectSeq(rows, LAMBDA row : row["year"].n = grade)
        pass_data == SelectSeq(grade_data, LAMBDA row : PyEq(row["pass"], S("PASS")))
        fail_data == SelectSeq(grade_data, LAMBDA row : PyEq(row["pass"], S("FAIL")))
    IN  [grade |-> grade,
         total |-> Len(grade_data),
         pass |-> Len(pass_data),
         fail |-> Len(fail_data),
         pass_rate |-> Frac(100 * Len(pass_data), Len(grade_data)),
         pass_avg |-> IF pass_data = <<>> THEN Frac(0, 1)
                      ELSE Mean(Numbers(Frame(columns, pass_data), "score"))]

\* create_score_box_plot(): what the call returns, whether st.error was
\* called, and the table it displays.  Only the branch for no data of the
\* department has a return statement; a text score among the passed
\* raises in mean(), and the overall pass rate divides by the number of
\* rows that are left
create_score_box_plot(store) ==
    IF \E i \in 1..Len(store) : "dept" \notin store[i].df.cols
    THEN [ret |-> PyNone, err |-> TRUE, rows |-> <<>>]
    ELSE LET dept_rows == ConcatDept(store, 1)
         IN  IF dept_rows = <<>>
             THEN [ret |-> EmptyFigure, err |-> FALSE, rows |-> <<>>]
             ELSE IF \E k \in 1..Len(dept_rows) :
                         ~({"year", "pass", "score"} \subseteq DOMAIN dept_rows[k])
             THEN [ret |-> PyNone, err |-> TRUE, rows |-> <<>>]
             ELSE LET all_data == WithNumericYear(dept_rows)
                      passed == SelectSeq(all_data,
                                    LAMBDA row : PyEq(row["pass"], S("PASS")))
                      grades == SortedYears(all_data)
                  IN  IF ~NumericColumn(Frame(columns, passed), "score")
                      THEN [ret |-> PyNone, err |-> TRUE, rows |-> <<>>]
                      ELSE IF all_data = <<>>
                      THEN [ret |-> PyNone, err |-> TRUE, rows |-> <<>>]
                      ELSE [ret |-> PyNone, err |-> FALSE,
                            rows |-> [k \in 1..Len(grades) |->
                                         GradeStats(all_data, grades[k])]]

----------------------------------------------------------------------------
(* The monitor: construction, load_data, filter_data.                      *)

Init ==
    /\ data = EmptyFrame
    /\ all_rounds_data = <<>>
    /\ op = "init"
    /\ filters = NoFilters
    /\ input = EmptyFrame
    /\ ret = EmptyFrame
    /\ prev = NoPrev
    /\ stats = NoStats
    /\ ok = FALSE
    /\ err = FALSE
    /\ shared = FALSE
    /\ loaded = <<>>
    /\ unread = {}
    /\ file_ext = ""
    /\ load_exc = ""

\* monitor.load_data(file); input keeps the table the reader parsed
LoadData ==
    \E file \in Files :
        \E r \in {load_data(data, file)} :
            /\ data' = r.data
            /\ ok' = r.ok
            /\ err' = r.err
            /\ op' = "load_data"
            /\ file_ext' = file.ext
            /\ load_exc' = r.exc
            /\ filters' = NoFilters
            /\ input' = IF KnownExtension(file.ext) /\ file.readable
                        THEN file.df ELSE EmptyFrame
            /\ ret' = EmptyFrame
            /\ prev' = NoPrev
            /\ shared' = FALSE
            /\ UNCHANGED <<all_rounds_data, stats, loaded, unread>>

\* monitor.filter_data(fmap)
FilterData ==
    \E fmap \in FilterMaps :
        \E r \in {filter_data(data, fmap)} :
            /\ op' = "filter_data"
            /\ filters' = fmap
            /\ input' = data
            /\ ret' = r.ret
            /\ err' = r.err
            /\ shared' = r.shared
            /\ prev' = NoPrev
            /\ UNCHANGED <<data, all_rounds_data, stats, ok, loaded, unread, file_ext,
                           load_exc>>

Next == LoadData \/ FilterData

Spec == Init /\ [][Next]_vars

----------------------------------------------------------------------------
(* filter_data as a function of the dataset and the filter map: one call,  *)
(* then one call on the dataset the first call returned.                   *)

\* the datasets load_data can leave in self.data
LoadedFrames == {EmptyFrame} \cup { process_data_types(df) : df \in RawFrames }

InitCompose ==
    /\ data \in LoadedFrames
    /\ all_rounds_data = <<>>
    /\ op = "init"
    /\ filters = NoFilters
    /\ input = EmptyFrame
    /\ ret = EmptyFrame
    /\ prev = NoPrev
    /\ stats = NoStats
    /\ ok = FALSE
    /\ err = FALSE
    /\ shared = FALSE
    /\ loaded = <<>>
    /\ unread = {}
    /\ file_ext = ""
    /\ load_exc = ""

FilterFirst == op = "init" /\ FilterData

\* filter_data(fmap) on a monitor whose self.data is the dataset the first
\* call returned
FilterView ==
    /\ op = "filter_data"
    /\ \E fmap \in FilterMaps :
        \E r \in {filter_data(ret, fmap)} :
            /\ op' = "filter_view"
            /\ filters' = fmap
            /\ input' = ret
            /\ ret' = r.ret
            /\ err' = r.err
            /\ shared' = r.shared
            /\ prev' = [input |-> input, filters |-> filters]
            /\ UNCHANGED <<data, all_rounds_data, stats, ok, loaded, unread, file_ext,
                           load_exc>>

NextCompose == FilterFirst \/ FilterView

SpecCompose == InitCompose /\ [][NextCompose]_vars

----------------------------------------------------------------------------
(* The statistics of a filtered view, as main() asks for them.             *)

MaxStatRows == 10

\* two loaded rows: score 80 and passed, score 0 and failed
StatRows ==
    { ProcessRow(columns, row) :
        row \in { r \in RawRows : r["email"] \in {S("a@x"), S("b@x")} } }

StatViews == { Frame(columns, rows) : rows \in SeqsUpTo(StatRows, MaxStatRows) }

InitStats ==
    /\ data = EmptyFrame
    /\ all_rounds_data = <<>>
    /\ op = "init"
    /\ filters = NoFilters
    /\ input = EmptyFrame
    /\ ret \in StatViews
    /\ prev = NoPrev
    /\ stats = NoStats
    /\ ok = FALSE
    /\ err = FALSE
    /\ shared = FALSE
    /\ loaded = <<>>
    /\ unread = {}
    /\ file_ext = ""
    /\ load_exc = ""

\* monitor.get_statistics(filtered_data)
GetStatistics ==
    \E r \in {get_statistics(ret)} :
        /\ op' = "get_statistics"
        /\ input' = ret
        /\ stats' = r
        /\ err' = r.raised
        /\ UNCHANGED <<data, all_rounds_data, filters, ret, prev, ok, shared, loaded,
                     unread, file_ext, load_exc>>

\* monitor.calculate_advanced_statistics(filtered_data)
CalculateAdvancedStatistics ==
    \E r \in {calculate_advanced_statistics(ret)} :
        /\ op' = "calculate_advanced_statistics"
        /\ input' = ret
        /\ stats' = r
        /\ err' = r.raised
        /\ UNCHANGED <<data, all_rounds_data, filters, ret, prev, ok, shared, loaded,
                     unread, file_ext, load_exc>>

\* the departments a caller passes: none, two that occur, one that does not
Departments == {Absent, S("CS"), S("EE"), S("ME")}

\* monitor.create_performance_radar(filtered_data, department)
CreatePerformanceRadar ==
    \E department \in Departments :
        \E r \in {create_performance_radar(ret, department)} :
            /\ op' = "create_performance_radar"
            /\ input' = ret
            /\ stats' = r
            /\ err' = r.raised
            /\ UNCHANGED <<data, all_rounds_data, filters, ret, prev, ok, shared,
                           loaded, unread, file_ext, load_exc>>

NextStats == GetStatistics \/ CalculateAdvancedStatistics \/ CreatePerformanceRadar

SpecStats == InitStats /\ [][NextStats]_vars

----------------------------------------------------------------------------
(* The round store under load_all_rounds_data.                             *)

\* what a round file may hold: each one-row content, and one of two rows
RoundSources ==
    { df \in RawFrames : Len(df.rows) = 1 }
        \cup { Frame(columns,
                   <<MkRow(I(1), S("a@x"), S("FAIL"), I(40), S("D"), S("EE"), I(3), I(1001)),
                     MkRow(I(2), S("a@x"), S("PASS"), I(90), S("A"), S("EE"), I(3), I(1001))>>) }

\* monitor.load_all_rounds_data() with round files that hold sources of the
\* given set
LoadAllRoundsDataFrom(sources) ==
    \E n \in 0..Len(RoundFiles) :
        \E srcs \in [1..n -> sources] :
            \E r \in {load_all_rounds_data(all_rounds_data, srcs)} :
                /\ all_rounds_data' = r.store
                /\ ok' = r.ok
                /\ err' = r.err
                /\ op' = "load_all_rounds_data"
                /\ loaded' = srcs
                /\ unread' = r.unread
                /\ UNCHANGED <<data, filters, input, ret, prev, stats, shared, file_ext,
                               load_exc>>

LoadAllRoundsData == LoadAllRoundsDataFrom(RoundSources)

NextStore == LoadAllRoundsData

SpecStore == Init /\ [][NextStore]_vars

----------------------------------------------------------------------------
(* The reads of the round store, as main() calls them after it has loaded  *)
(* the rounds.  One load_all_rounds_data call on the new monitor produces  *)
(* every store that any sequence of calls can produce: rounds 1 to k, each *)
(* with any source.                                                        *)

\* a round in which the target department has a failed record and a record
\* with empty pass/fail, score and level cells
AbsenteeSource ==
    Frame(columns,
          <<MkRow(I(1), S("d@x"), S("FAIL"), I(30), S("D"), S("CS"), I(1), I(1004)),
            MkRow(I(2), S("e@x"), NaN, NaN, NaN, S("CS"), I(1), I(1005))>>)

\* a round with a record whose email cell is empty
NoEmailSource ==
    Frame(columns,
          <<MkRow(I(1), NaN, S("PASS"), I(70), S("B"), S("CS"), I(2), I(1006))>>)

ReadSources == RoundSources \cup {AbsenteeSource, NoEmailSource}

\* the emails a caller asks for: four that occur in sources, one that occurs
\* in none
Emails == {S("a@x"), S("b@x"), S("c@x"), S("d@x"), S("z@x")}

LoadRounds == op = "init" /\ LoadAllRoundsDataFrom(ReadSources)

\* monitor.get_student_progress(email)
GetStudentProgress ==
    \E email \in Emails :
        \E r \in {get_student_progress(all_rounds_data, email)} :
            /\ op' = "get_student_progress"
            /\ input' = email
            /\ ret' = r.ret
            /\ err' = r.err
            /\ stats' = NoStats
            /\ UNCHANGED <<data, all_rounds_data, filters, prev, ok, shared, loaded,
                           unread, file_ext, load_exc>>

\* monitor.get_multiple_test_students(); input keeps the threshold the caller
\* has in mind, which the method has no parameter to take, and stats the
\* dict student_counts
GetMultipleTestStudents ==
    \E minAttempts \in 1..Len(RoundFiles) :
        \E r \in {get_multiple_test_students(all_rounds_data)} :
            /\ op' = "get_multiple_test_students"
            /\ input' = I(minAttempts)
            /\ ret' = r.ret
            /\ err' = r.err
            /\ stats' = [kind |-> "student_counts", counts |-> r.counts]
            /\ UNCHANGED <<data, all_rounds_data, filters, prev, ok, shared, loaded,
                           unread, file_ext, load_exc>>

\* monitor.create_student_progress_plots(email); stats keeps the summary
\* table
CreateStudentProgressPlots ==
    \E email \in Emails :
        \E r \in {create_student_progress_plots(all_rounds_data, email)} :
            /\ op' = "create_student_progress_plots"
            /\ input' = email
            /\ ret' = NoColumnsFrame
            /\ err' = r.err
            /\ stats' = r.summary
            /\ UNCHANGED <<data, all_rounds_data, filters, prev, ok, shared, loaded,
                           unread, file_ext, load_exc>>

\* monitor.create_performance_heatmap(); stats keeps the traces of the figure
CreatePerformanceHeatmap ==
    \E r \in {create_performance_heatmap(all_rounds_data)} :
        /\ op' = "create_performance_heatmap"
        /\ input' = Absent
        /\ ret' = NoColumnsFrame
        /\ err' = r.err
        /\ stats' = [kind |-> "heatmap", rounds |-> r.rounds]
        /\ UNCHANGED <<data, all_rounds_data, filters, prev, ok, shared, loaded,
                       unread, file_ext, load_exc>>

\* monitor.create_score_box_plot(); ret keeps what the call returned and
\* stats the table it displayed
CreateScoreBoxPlot ==
    \E r \in {create_score_box_plot(all_rounds_data)} :
        /\ op' = "create_score_box_plot"
        /\ input' = Absent
        /\ ret' = r.ret
        /\ err' = r.err
        /\ stats' = [kind |-> "grade_stats", rows |-> r.rows]
        /\ UNCHANGED <<data, all_rounds_data, filters, prev, ok, shared, loaded,
                       unread, file_ext, load_exc>>

NextRounds ==
    \/ LoadRounds
    \/ GetStudentProgress
    \/ GetMultipleTestStudents
    \/ CreateStudentProgressPlots
    \/ CreatePerformanceHeatmap
    \/ CreateScoreBoxPlot

SpecRounds == Init /\ [][NextRounds]_vars

----------------------------------------------------------------------------
(* Properties of filter_data.                                              *)

\* a constraint that is empty or absent: no key, an empty string, an empty list
EmptyConstraint(v) == v \in {Absent, S(""), L(<<>>)}

\* the keys of fmap are all columns of df
KeysExist(fmap, df) == \A k \in FilterKeys : fmap[k] # Absent => k \in df.cols

\* C1: a filter map whose every key is empty or absent makes filter_data
\* return the rows of the dataset, all of them, in their order.
C1_FilterIdentity ==
    (op = "filter_data" /\ \A k \in FilterKeys : EmptyConstraint(filters[k]))
        => (ret.rows = data.rows /\ ret.cols = data.cols /\ ~err)

C1_Witness ==
    /\ op = "filter_data"
    /\ \A k \in FilterKeys : EmptyConstraint(filters[k])
    /\ filters["dept"] = L(<<>>)
    /\ filters["year"] = S("")
    /\ Len(data.rows) >= 2
    /\ data.rows[1] # data.rows[2]
    /\ ret.rows = data.rows

\* a row satisfies every non-empty constraint: its value is a member of a
\* list constraint, equals a scalar constraint (academic year: as strings)
SatisfiesAll(row, fmap) ==
    \A k \in FilterKeys :
        \/ EmptyConstraint(fmap[k])
        \/ IF fmap[k].t = "list"
           THEN \E i \in 1..Len(fmap[k].items) : row[k] = fmap[k].items[i]
           ELSE \/ row[k] = fmap[k]
                \/ k = "year" /\ PyStr(row[k]) = PyStr(fmap[k])

\* C2: with every key an existing column, filter_data returns the
\* subsequence of the rows that satisfy every non-empty constraint.
C2_FilterSubsequence ==
    (op = "filter_data" /\ KeysExist(filters, input))
        => ret.rows = SelectSeq(input.rows, LAMBDA row : SatisfiesAll(row, filters))

\* what the code does instead: a constraint counts when its value is truthy
SatisfiesTruthy(row, fmap) ==
    \A k \in FilterKeys :
        \/ fmap[k] = Absent
        \/ fmap[k] \in {S(""), L(<<>>), I(0)}
        \/ IF fmap[k].t = "list"
           THEN \E i \in 1..Len(fmap[k].items) : row[k] = fmap[k].items[i]
           ELSE \/ row[k] = fmap[k]
                \/ k = "year" /\ PyStr(row[k]) = PyStr(fmap[k])

FilterSubsequenceOfTruthy ==
    (op = "filter_data" /\ KeysExist(filters, input))
        => ret.rows = SelectSeq(input.rows, LAMBDA row : SatisfiesTruthy(row, filters))

Disjoint(f1, f2) == \A k \in FilterKeys : f1[k] = Absent \/ f2[k] = Absent

UnionMap(f1, f2) == [k \in FilterKeys |-> IF f1[k] # Absent THEN f1[k] ELSE f2[k]]

\* C3 as stated: filtering by F1 and then by F2, on disjoint columns, gives
\* the rows of filtering once by the union of F1 and F2.
C3_ComposableAnyColumns ==
    (op = "filter_view" /\ Disjoint(prev.filters, filters))
        => ret.rows = filter_data(prev.input, UnionMap(prev.filters, filters)).ret.rows

\* C3: the same, for filter maps whose keys are all columns of the dataset.
C3_Composable ==
    (/\ op = "filter_view"
     /\ Disjoint(prev.filters, filters)
     /\ KeysExist(prev.filters, prev.input)
     /\ KeysExist(filters, prev.input))
        => ret.rows = filter_data(prev.input, UnionMap(prev.filters, filters)).ret.rows

C3_Witness ==
    /\ op = "filter_view"
    /\ Disjoint(prev.filters, filters)
    /\ KeysExist(prev.filters, prev.input)
    /\ KeysExist(filters, prev.input)
    /\ Len(input.rows) < Len(prev.input.rows)
    /\ Len(ret.rows) < Len(input.rows)
    /\ ret.rows = filter_data(prev.input, UnionMap(prev.filters, filters)).ret.rows

\* C4: a filter map with a non-empty constraint on a column the dataset
\* lacks makes filter_data report the error and return the whole dataset.
C4_UnknownColumnFallback ==
    (/\ op = "filter_data"
     /\ \E k \in FilterKeys : ~EmptyConstraint(filters[k]) /\ k \notin input.cols)
        => (err /\ ret = input)

\* what the code does: the fallback is taken when the unknown column has a
\* truthy constraint
UnknownColumnFallbackTruthy ==
    (/\ op = "filter_data"
     /\ \E k \in FilterKeys :
            filters[k] # Absent /\ Truthy(filters[k]) /\ k \notin input.cols)
        => (err /\ ret = input)

----------------------------------------------------------------------------
(* Properties of the statistics.                                           *)

Passed(df) == { i \in 1..Len(df.rows) : df.rows[i]["pass"] = S("PASS") }

\* C5: get_statistics reports the number of rows, and the pass rate
\* passed / count * 100, which is 0 for the empty dataset.
C5_BasicStats ==
    op = "get_statistics" =>
        /\ stats.count = Len(input.rows)
        /\ IF Len(input.rows) = 0
           THEN ~stats.pass_rate.nan /\ stats.pass_rate.num = 0
           ELSE /\ ~stats.pass_rate.nan
                /\ stats.pass_rate.num * Len(input.rows)
                       = 100 * Cardinality(Passed(input)) * stats.pass_rate.den

\* what the code does: the same for a dataset with rows, NaN for none
BasicStatsNonEmpty ==
    op = "get_statistics" =>
        /\ stats.count = Len(input.rows)
        /\ IF Len(input.rows) = 0
           THEN stats.pass_rate.nan
           ELSE /\ ~stats.pass_rate.nan
                /\ stats.pass_rate.num * Len(input.rows)
                       = 100 * Cardinality(Passed(input)) * stats.pass_rate.den

IsZero(x) == ~x.nan /\ x.num = 0

\* C6: on the empty dataset every statistic is a zero or an empty map,
\* never NaN and never a raised error.
C6_EmptyStatsZero ==
    Len(input.rows) = 0 =>
        /\ op = "get_statistics" =>
              /\ ~stats.raised
              /\ stats.count = 0
              /\ IsZero(stats.pass_rate)
              /\ IsZero(stats.mean)
              /\ stats.by_dept = EmptyDict
              /\ stats.by_year = EmptyDict
              /\ stats.by_level = EmptyDict
        /\ op = "calculate_advanced_statistics" =>
              /\ ~stats.raised
              /\ IsZero(stats.std)
              /\ IsZero(stats.median)
              /\ IsZero(stats.max)
              /\ IsZero(stats.min)
              /\ IsZero(stats.top10)
              /\ IsZero(stats.bottom10)

\* the decile count of the specification: ceil(max(1, 0.1 * n))
ClampedDecileCount(n) == IF n <= 10 THEN 1 ELSE (n + 9) \div 10

SameValue(x, y) == ~x.nan /\ ~y.nan /\ x.num * y.den = y.num * x.den

\* C7: with n >= 1 rows the decile means are the means of the
\* k = ceil(max(1, 0.1 n)) highest and lowest scores.
C7_DecileMeans ==
    (op = "calculate_advanced_statistics" /\ Len(input.rows) >= 1) =>
        LET xs == Numbers(input, "score")
            k == ClampedDecileCount(Len(input.rows))
        IN  /\ SameValue(stats.top10, Mean(nlargest(xs, k)))
            /\ SameValue(stats.bottom10, Mean(nsmallest(xs, k)))

\* what the code does: k = floor(0.1 n), and NaN when that is 0
DecileMeansFloor ==
    (op = "calculate_advanced_statistics" /\ Len(input.rows) >= 1) =>
        LET xs == Numbers(input, "score")
            k == Len(input.rows) \div 10
        IN  IF k = 0
            THEN stats.top10.nan /\ stats.bottom10.nan
            ELSE /\ SameValue(stats.top10, Mean(nlargest(xs, k)))
                 /\ SameValue(stats.bottom10, Mean(nsmallest(xs, k)))

AllScoresEqual(df) ==
    \A i, j \in 1..Len(df.rows) : df.rows[i]["score"] = df.rows[j]["score"]

\* C8: with more than one row and scores not all equal, the top-decile
\* mean is at least the bottom-decile mean.
C8_TopAtLeastBottom ==
    (/\ op = "calculate_advanced_statistics"
     /\ Len(input.rows) > 1
     /\ ~AllScoresEqual(input)) =>
        /\ ~stats.top10.nan
        /\ ~stats.bottom10.nan
        /\ stats.top10.num * stats.bottom10.den >= stats.bottom10.num * stats.top10.den

\* what the code does: the order holds from ten rows on
TopAtLeastBottomFromTen ==
    (/\ op = "calculate_advanced_statistics"
     /\ Len(input.rows) >= 10
     /\ ~AllScoresEqual(input)) =>
        /\ ~stats.top10.nan
        /\ ~stats.bottom10.nan
        /\ stats.top10.num * stats.bottom10.den >= stats.bottom10.num * stats.top10.den

----------------------------------------------------------------------------
(* Properties of the round store.                                          *)

\* C9: every record of the round store is normalized: a numeric score and
\* string-typed email, pass/fail, level, department, student number, year.
C9_StoreNormalized ==
    \A i \in 1..Len(all_rounds_data) :
        \A j \in 1..Len(all_rounds_data[i].df.rows) :
            LET row == all_rounds_data[i].df.rows[j]
            IN  /\ row["score"].t = "int"
                /\ \A c \in {"email", "pass", "level", "dept", "sid", "year"} :
                       row[c].t = "str"

\* the round numbers the last load_all_rounds_data call stored
LoadedRounds(srcs) == { RoundNums[i] : i \in 1..Len(srcs) }

EntriesOf(store, r) == { i \in 1..Len(store) : store[i].round = r }

\* C10: loading round r replaces the entry of r by the loaded dataset,
\* keeps one entry per round number, leaves every other round as it was,
\* and re-loading stored rounds leaves the number of rounds unchanged.
C10_LoadOverwrites ==
    [][ /\ \A i \in 1..Len(loaded') :
             LET r == RoundNums[i]
             IN  /\ Cardinality(EntriesOf(all_rounds_data', r)) = 1
                 /\ Lookup(all_rounds_data', r) = loaded'[i]
        /\ \A r \in Keys(all_rounds_data) \ LoadedRounds(loaded') :
             /\ Cardinality(EntriesOf(all_rounds_data', r)) = 1
             /\ Lookup(all_rounds_data', r) = Lookup(all_rounds_data, r)
        /\ Keys(all_rounds_data') = Keys(all_rounds_data) \cup LoadedRounds(loaded')
        /\ LoadedRounds(loaded') \subseteq Keys(all_rounds_data)
               => Len(all_rounds_data') = Len(all_rounds_data) ]_vars

\* a call that read rounds 1 and 2 only, on a store that held rounds 1 to 3
C10_Witness ==
    /\ op = "load_all_rounds_data"
    /\ Len(loaded) = 2
    /\ Len(all_rounds_data) = 3
    /\ all_rounds_data[1].df = loaded[1]
    /\ all_rounds_data[2].df = loaded[2]
    /\ all_rounds_data[3].df # loaded[1]
    /\ all_rounds_data[3].df # loaded[2]

\* C11: a load_all_rounds_data call skips only the round source that fails
\* and goes on with the remaining round sources, so that no round file is
\* left unopened; it reports success exactly when it loaded at least one
\* round.
C11_PartialLoad ==
    op = "load_all_rounds_data" =>
        /\ unread = {}
        /\ ok <=> Len(loaded) >= 1

----------------------------------------------------------------------------
(* Properties of load_data.                                                *)

\* C12: a load of a source that lacks one of the required columns returns
\* failure and changes nothing: the current dataset and the number of stored
\* rounds are after the call what they were before it.
C12_MissingColumnRejected ==
    [][ (op' = "load_data" /\ input'.cols # columns) =>
            /\ ~ok'
            /\ data' = data
            /\ Len(all_rounds_data') = Len(all_rounds_data) ]_vars

AbsentCell(v) == v.t = "nan"

\* a text that is no numeral
Unparsable(v) == v.t = "str" /\ \A n \in 0..MaxNumeral : NumeralTable[n] # v.s

\* C20: load_data keeps every row of the source, and in every row an absent
\* or unparsable score is 0.0, an absent or unparsable sequence number is 1
\* and an absent academic year is the string "1".
C20_NormalizedDefaults ==
    (op = "load_data" /\ ok) =>
        /\ Len(data.rows) = Len(input.rows)
        /\ \A i \in 1..Len(input.rows) :
               LET raw == input.rows[i]
                   row == data.rows[i]
               IN  /\ (AbsentCell(raw["score"]) \/ Unparsable(raw["score"]))
                          => row["score"] = I(0)
                   /\ (AbsentCell(raw["No"]) \/ Unparsable(raw["No"]))
                          => row["No"] = I(1)
                   /\ AbsentCell(raw["year"]) => row["year"] = S("1")

\* what the code does: the rows are kept and the numeric defaults applied,
\* and an absent academic year becomes the string "nan"
NormalizedDefaultsYearNan ==
    (op = "load_data" /\ ok) =>
        /\ Len(data.rows) = Len(input.rows)
        /\ \A i \in 1..Len(input.rows) :
               LET raw == input.rows[i]
                   row == data.rows[i]
               IN  /\ (AbsentCell(raw["score"]) \/ Unparsable(raw["score"]))
                          => row["score"] = I(0)
                   /\ (AbsentCell(raw["No"]) \/ Unparsable(raw["No"]))
                          => row["No"] = I(1)
                   /\ AbsentCell(raw["year"]) => row["year"] = S("nan")

----------------------------------------------------------------------------
(* Properties of the reads of the round store.                             *)

\* the positions of the records of the email in round r
RecordsOf(store, r, email) ==
    { j \in 1..Len(Lookup(store, r).rows) : Lookup(store, r).rows[j]["email"] = email }

\* the stored rounds that hold a record of the email
RoundsWith(store, email) == { r \in Keys(store) : RecordsOf(store, r, email) # {} }

\* the emails observed in any stored round
StoredEmails(store) ==
    UNION { { store[i].df.rows[j]["email"] : j \in 1..Len(store[i].df.rows) } :
              i \in 1..Len(store) } \ {NaN}

EntriesFor(counts, email) == { k \in 1..Len(counts) : counts[k].email = email }

CountOf(counts, email) ==
    IF EntriesFor(counts, email) = {} THEN 0
    ELSE counts[CHOOSE k \in EntriesFor(counts, email) : TRUE].count

ListedEmails(df) == { df.rows[k]["email"] : k \in 1..Len(df.rows) }

ListedOnce(df) ==
    \A k1, k2 \in 1..Len(df.rows) :
        df.rows[k1]["email"] = df.rows[k2]["email"] => k1 = k2

\* C14: for the threshold minAttempts the caller supplies, the result lists
\* exactly the identities whose attempt count is at least minAttempts, each
\* of them once.
C14_RepeatTesters ==
    op = "get_multiple_test_students" =>
        /\ ListedEmails(ret)
               = { email \in StoredEmails(all_rounds_data) :
                     Cardinality(RoundsWith(all_rounds_data, email)) >= input.n }
        /\ ListedOnce(ret)

\* what the code does: the threshold is 3, whatever the caller has in mind
RepeatTestersAtLeastThree ==
    op = "get_multiple_test_students" =>
        /\ ListedEmails(ret)
               = { email \in StoredEmails(all_rounds_data) :
                     Cardinality(RoundsWith(all_rounds_data, email)) >= 3 }
        /\ ListedOnce(ret)

HighestRound(store, email) ==
    CHOOSE r \in RoundsWith(store, email) : \A q \in RoundsWith(store, email) : q <= r

\* C15: the department and the student number reported for a listed
\* identity are those of its record in the highest-numbered round in which
\* it appears.
C15_LatestInfo ==
    op = "get_multiple_test_students" =>
        \A k \in 1..Len(ret.rows) :
            LET row == ret.rows[k]
                r == HighestRound(all_rounds_data, row["email"])
            IN  \E j \in RecordsOf(all_rounds_data, r, row["email"]) :
                    /\ row["dept"] = Lookup(all_rounds_data, r).rows[j]["dept"]
                    /\ row["sid"] = Lookup(all_rounds_data, r).rows[j]["sid"]

\* a listed identity whose department in an earlier round is another one
C15_Witness ==
    /\ op = "get_multiple_test_students"
    /\ \E k \in 1..Len(ret.rows) :
           LET row == ret.rows[k]
           IN  \E r \in RoundsWith(all_rounds_data, row["email"]) :
                   \E j \in RecordsOf(all_rounds_data, r, row["email"]) :
                       Lookup(all_rounds_data, r).rows[j]["dept"] # row["dept"]

Trajectory(store, email) ==
    LET rounds == RoundsWith(store, email)
    IN  [k \in 1..Cardinality(rounds) |->
            LET r == CHOOSE q \in rounds :
                         Cardinality({ p \in rounds : p < q }) = k - 1
                first == CHOOSE j \in RecordsOf(store, r, email) :
                             \A h \in RecordsOf(store, r, email) : j <= h
            IN  Lookup(store, r).rows[first]]

TrajectoryScores(store, email) ==
    [k \in 1..Len(Trajectory(store, email)) |-> Trajectory(store, email)[k]["score"]]

AllNumbers(cells) == \A k \in 1..Len(cells) : cells[k].t = "int"

\* C17: for an email with a non-empty trajectory the summary reports the
\* number of entries, the mean, the maximum and the minimum of the scores of
\* the trajectory and the number of entries that passed; for an email with
\* an empty trajectory the summary is empty and nothing is raised.
C17_Summary ==
    op = "create_student_progress_plots" =>
        LET t == Trajectory(all_rounds_data, input)
            cells == TrajectoryScores(all_rounds_data, input)
            xs == [k \in 1..Len(cells) |-> cells[k].n]
        IN  IF t = <<>>
            THEN stats = NoStats /\ ~err
            ELSE /\ stats # NoStats
                 /\ stats.count = Len(t)
                 /\ AllNumbers(cells)
                 /\ SameValue(stats.mean, Mean(xs))
                 /\ SameValue(stats.max, Frac(Max(xs), 1))
                 /\ SameValue(stats.min, Frac(Min(xs), 1))
                 /\ stats.passes
                        = Cardinality({ k \in 1..Len(t) : t[k]["pass"] = S("PASS") })

\* what the code does on a trajectory whose scores are all numbers: the mean
\* is rounded to one decimal
SummaryOfNumbers ==
    op = "create_student_progress_plots" =>
        LET t == Trajectory(all_rounds_data, input)
            cells == TrajectoryScores(all_rounds_data, input)
            xs == [k \in 1..Len(cells) |-> cells[k].n]
        IN  IF t = <<>>
            THEN stats = NoStats /\ ~err
            ELSE AllNumbers(cells) =>
                 /\ stats # NoStats
                 /\ stats.count = Len(t)
                 /\ SameValue(stats.mean, Round1(Mean(xs)))
                 /\ SameValue(stats.max, Frac(Max(xs), 1))
                 /\ SameValue(stats.min, Frac(Min(xs), 1))
                 /\ stats.passes
                        = Cardinality({ k \in 1..Len(t) : t[k]["pass"] = S("PASS") })

\* the positions of the target department's records in round r
DeptRecords(store, r) ==
    { j \in 1..Len(Lookup(store, r).rows) : Lookup(store, r).rows[j]["dept"] = TargetDept }

PassedRecords(store, r) ==
    { j \in DeptRecords(store, r) : Lookup(store, r).rows[j]["pass"] = S("PASS") }

\* C18: every round of the target department's per-round summary reports
\* total = the number of the department's records in the round, pass = the
\* number of those that passed, fail = total - pass, and pass rate =
\* pass / total * 100, or 0 when total is 0.
C18_RoundSummary ==
    op = "create_performance_heatmap" =>
        \A k \in 1..Len(stats.rounds) :
            LET e == stats.rounds[k]
                total == Cardinality(DeptRecords(all_rounds_data, e.round))
                passed == Cardinality(PassedRecords(all_rounds_data, e.round))
            IN  /\ e.total = total
                /\ e.pass = passed
                /\ e.fail = total - passed
                /\ IF total = 0 THEN IsZero(e.pass_rate)
                   ELSE SameValue(e.pass_rate, Frac(100 * passed, total))

\* what the code does: the failed are the records labelled as failed
RoundSummaryFailLabel ==
    op = "create_performance_heatmap" =>
        \A k \in 1..Len(stats.rounds) :
            LET e == stats.rounds[k]
                total == Cardinality(DeptRecords(all_rounds_data, e.round))
                passed == Cardinality(PassedRecords(all_rounds_data, e.round))
            IN  /\ e.total = total
                /\ e.pass = passed
                /\ e.fail = Cardinality({ j \in DeptRecords(all_rounds_data, e.round) :
                               Lookup(all_rounds_data, e.round).rows[j]["pass"] = S("FAIL") })
                /\ total > 0
                /\ SameValue(e.pass_rate, Frac(100 * passed, total))

\* C19: every stored round appears in the target department's per-round
\* summary, a round without a record of the department as a row with total
\* 0 and pass rate 0, and the rounds are reported in ascending order.
C19_EmptyRoundReported ==
    op = "create_performance_heatmap" =>
        /\ { stats.rounds[k].round : k \in 1..Len(stats.rounds) } = Keys(all_rounds_data)
        /\ \A k \in 1..Len(stats.rounds) :
               DeptRecords(all_rounds_data, stats.rounds[k].round) = {} =>
                   /\ stats.rounds[k].total = 0
                   /\ IsZero(stats.rounds[k].pass_rate)
        /\ \A k \in 1..(Len(stats.rounds) - 1) :
               stats.rounds[k].round < stats.rounds[k + 1].round

\* what the code does: the rounds reported are those that hold a record of
\* the department, in ascending order
RoundsWithDeptReported ==
    op = "create_performance_heatmap" =>
        /\ { stats.rounds[k].round : k \in 1..Len(stats.rounds) }
               = { r \in Keys(all_rounds_data) : DeptRecords(all_rounds_data, r) # {} }
        /\ \A k \in 1..(Len(stats.rounds) - 1) :
               stats.rounds[k].round < stats.rounds[k + 1].round

----------------------------------------------------------------------------
(* Properties of the failures of load_data.                                *)

\* C21: a load of a source whose extension is none of csv, xlsx, xls
\* returns failure, and the failure is the unsupported-format error, not an
\* internal error of another kind.
C21_UnsupportedFormat ==
    (op = "load_data" /\ ~KnownExtension(file_ext)) =>
        /\ ~ok
        /\ load_exc = "UnsupportedFormatError"

\* what the code does: the call returns failure and the dataset is kept,
\* and what it reports is the UnboundLocalError of the first use of df
UnsupportedFormatUnbound ==
    (op = "load_data" /\ ~KnownExtension(file_ext)) =>
        /\ ~ok
        /\ err
        /\ load_exc = "UnboundLocalError"

----------------------------------------------------------------------------
(* Properties of all reads.                                                *)

StoreReads ==
    {"get_student_progress", "get_multiple_test_students",
     "create_performance_heatmap", "create_score_box_plot"}

\* C22: every read of the round store returns a value of its result shape
\* in every store state and for every input: no exception escapes and no
\* call ends without a return value.
C22_ReadsTotal ==
    op \in StoreReads => ret # PyNone

\* what the code does: every read but create_score_box_plot returns a table
\* or a figure, and create_score_box_plot returns a figure only when the
\* store has no record of the department
ReadsTotalButBoxPlot ==
    /\ op \in StoreReads \ {"create_score_box_plot"} => ret # PyNone
    /\ op = "create_score_box_plot" =>
           (ret # PyNone <=> ConcatDept(all_rounds_data, 1) = <<>>)

----------------------------------------------------------------------------
(* Properties of the radar metrics.                                        *)

\* the rows of the dataset that the figure titled so is about
SubsetSize(df, title) ==
    IF title = S("all") THEN Len(df.rows)
    ELSE Cardinality({ i \in 1..Len(df.rows) : df.rows[i]["dept"] = title })

\* C23: the participation indicator of the radar metrics is the size of the
\* department subset divided by the size of the full dataset, and 0 when
\* the full dataset is empty; in that case too the metrics are produced,
\* with the improvement indicator 0.5.
C23_RadarParticipation ==
    op = "create_performance_radar" =>
        /\ ~stats.raised
        /\ SameValue(stats.improvement, Frac(1, 2))
        /\ IF Len(input.rows) = 0
           THEN IsZero(stats.participation)
           ELSE SameValue(stats.participation,
                          Frac(SubsetSize(input, stats.title), Len(input.rows)))

\* what the code does: the metrics are as claimed for a dataset with rows,
\* and for the empty dataset the division raises and no metric is produced
RadarRaisesOnEmpty ==
    op = "create_performance_radar" =>
        IF Len(input.rows) = 0
        THEN stats.raised /\ err
        ELSE /\ ~stats.raised
             /\ SameValue(stats.improvement, Frac(1, 2))
             /\ SameValue(stats.participation,
                          Frac(SubsetSize(input, stats.title), Len(input.rows)))

----------------------------------------------------------------------------
(* Properties of the reads as a whole.                                     *)

\* the reads of the monitor
Reads ==
    StoreReads \cup {"filter_data", "get_statistics",
                     "calculate_advanced_statistics", "create_performance_radar",
                     "create_student_progress_plots"}

\* C24: no read changes the state of the monitor (the current dataset and
\* every stored round stay as they were), and the value a read returns
\* never is an object of the store itself, the error fallback of
\* filter_data included.
C24_ReadsIsolated ==
    [][op' \in Reads =>
          /\ data' = data
          /\ all_rounds_data' = all_rounds_data
          /\ ~shared']_vars

\* what the code does: a read leaves the state alone, and filter_data
\* returns self.data itself exactly when it takes its error fallback
ReadsShareOnFallback ==
    [][op' \in Reads =>
          /\ data' = data
          /\ all_rounds_data' = all_rounds_data
          /\ (shared' <=> (op' = "filter_data" /\ err'))]_vars

----------------------------------------------------------------------------
(* The shape of the round store over any sequence of loads.                *)

\* C25: after every load_all_rounds_data call the keys of the round store
\* are the rounds 1..k of the file list, iterated in ascending order; a call
\* that fails at round j returns failure, holds for the rounds before j the
\* datasets it has just read and holds for the rounds from j on the entries
\* the store had before the call.
C25_PrefixStore ==
    [][op' = "load_all_rounds_data" =>
          /\ Len(all_rounds_data') <= Len(RoundFiles)
          /\ \A i \in 1..Len(all_rounds_data') :
                 all_rounds_data'[i].round = RoundNums[i]
          /\ ok' <=> Len(loaded') = Len(RoundFiles)
          /\ ~ok' =>
                LET j == Len(loaded') + 1
                IN  /\ \A i \in 1..(j - 1) :
                           Lookup(all_rounds_data', RoundNums[i]) = loaded'[i]
                    /\ \A i \in j..Len(all_rounds_data) :
                           /\ all_rounds_data[i].round \in Keys(all_rounds_data')
                           /\ Lookup(all_rounds_data', all_rounds_data[i].round)
                                  = all_rounds_data[i].df
                    /\ Len(all_rounds_data')
                           = IF Len(all_rounds_data) >= j
                             THEN Len(all_rounds_data) ELSE j - 1 ]_vars

\* a call that failed at round 2 on a store of four rounds: round 1 is the
\* dataset just read, rounds 2 to 4 are older entries
C25_Witness ==
    /\ op = "load_all_rounds_data"
    /\ ~ok
    /\ Len(loaded) = 1
    /\ Len(all_rounds_data) = 4
    /\ all_rounds_data[1].df = loaded[1]
    /\ \A i \in 2..4 : all_rounds_data[i].df # loaded[1]

----------------------------------------------------------------------------
(* The list of repeat testers against the trajectories.                    *)

\* the first record of the email in round r
FirstRecord(store, r, email) ==
    Lookup(store, r).rows[CHOOSE j \in RecordsOf(store, r, email) :
                              \A h \in RecordsOf(store, r, email) : j <= h]

----------------------------------------------------------------------------
(* The current dataset over any sequence of loads.                         *)

\* C27: the current dataset changes only by a successful load_data call,
\* which replaces it wholesale by the normalized table of the source; a
\* failing call (an unsupported extension, unreadable content) and every
\* other operation leave it exactly as it was.
C27_CurrentDataset ==
    [][ /\ data' = IF op' = "load_data" /\ ok'
                   THEN process_data_types(input')
                   ELSE data
        /\ (op' = "load_data" /\ ok') =>
               /\ data'.cols = input'.cols
               /\ Len(data'.rows) = Len(input'.rows)
        /\ (op' = "load_data" /\ ~KnownExtension(file_ext')) => ~ok' ]_vars

\* a failed load, of either kind, on a monitor whose current dataset has
\* rows from an earlier load
C27_Witness ==
    /\ op = "load_data"
    /\ ~ok
    /\ err
    /\ Len(data.rows) >= 1

====
